---------------------------- MODULE Spec2Model ----------------------------
(***************************************************************************)
(* movinfo: the SMPTE timecode codec (NewTimecode, Add, String) and the    *)
(* ffprobe report parser (parse).                                          *)
(*                                                                         *)
(* Strings are sequences of one-character strings, so that slicing,        *)
(* prefix tests, splitting and number conversion are computed the way the  *)
(* Go code computes them.  Go's int is 64 bits wide; every value the model *)
(* reaches is far below 2^63, so no wrap-around is modelled.               *)
(***************************************************************************)
EXTENDS Integers, Sequences, FiniteSets, TLC

VARIABLES
    code,    \* codec: the string handed to NewTimecode
    reqBase, \* codec: the base handed to NewTimecode
    reqDrop, \* codec: the drop flag handed to NewTimecode
    t,       \* codec: the *Timecode (a record) or NilRec
    err,     \* codec: the error NewTimecode returned, or Nil
    out,     \* codec: the string String() returned, when it was the last call made
    nadds,   \* codec: the number of Add calls made so far
    ovLines, \* report: the lines of the overview ffprobe printed
    blocks,  \* report: the [STREAM] blocks ffprobe printed, each a sequence of lines
    data,    \* parse: the report text handed to parse
    cfg,     \* parse: the config handed to parse
    ret      \* parse: what parse returned, or NilRec before the call

vars == <<code, reqBase, reqDrop, t, err, out, nadds,
          ovLines, blocks, data, cfg, ret>>

codecVars == <<code, reqBase, reqDrop, t, err, out, nadds>>

parseVars == <<ovLines, blocks, data, cfg, ret>>

\* a nil error
Nil == "nil"

\* a nil *Timecode; also the value of ret before parse has returned
NilRec == [nil |-> TRUE]

-----------------------------------------------------------------------------
(* Go's integer arithmetic and strconv.                                    *)

\* Go's / on ints truncates toward zero.
Quot(a, b) ==
    IF a >= 0 THEN a \div b ELSE -((-a) \div b)

\* Go's % on ints takes the sign of the dividend.
Rem(a, b) ==
    a - b * Quot(a, b)

DigitChars ==
    <<"0","1","2","3","4","5","6","7","8","9">>

IsDigit(c) ==
    \E i \in 1..10 : DigitChars[i] = c

DigitVal(c) ==
    (CHOOSE i \in 1..10 : DigitChars[i] = c) - 1

RECURSIVE DigitsVal(_)
\* the value of a non-empty all-digit string
DigitsVal(s) ==
    IF s = <<>> THEN 0
    ELSE 10 * DigitsVal(SubSeq(s, 1, Len(s) - 1)) + DigitVal(s[Len(s)])

\* strconv.Atoi: an optional sign, then one or more decimal digits.
Atoi(s) ==
    LET signed == Len(s) > 0 /\ s[1] \in {"+", "-"}
        body   == IF signed THEN Tail(s) ELSE s
    IN  IF body = <<>> \/ \E i \in 1..Len(body) : ~IsDigit(body[i])
        THEN [ok |-> FALSE, n |-> 0]
        ELSE [ok |-> TRUE,
              n  |-> IF signed /\ s[1] = "-" THEN -DigitsVal(body)
                     ELSE DigitsVal(body)]

RECURSIVE NatStr(_)
NatStr(n) ==
    IF n < 10 THEN <<DigitChars[n + 1]>>
    ELSE NatStr(n \div 10) \o <<DigitChars[(n % 10) + 1]>>

\* strconv.Itoa
Itoa(n) ==
    IF n < 0 THEN <<"-">> \o NatStr(-n) ELSE NatStr(n)

-----------------------------------------------------------------------------
(* Go's strings package, on sequences of characters.                       *)

\* strings.HasPrefix
HasPrefix(s, prefix) ==
    Len(s) >= Len(prefix) /\ SubSeq(s, 1, Len(prefix)) = prefix

\* strings.TrimPrefix
TrimPrefix(s, prefix) ==
    IF HasPrefix(s, prefix) THEN SubSeq(s, Len(prefix) + 1, Len(s)) ELSE s

\* strings.Index: the 0-based place of the first occurrence of sub, or -1
Index(s, sub) ==
    LET hits == {i \in 1..(Len(s) - Len(sub) + 1) :
                    SubSeq(s, i, i + Len(sub) - 1) = sub}
    IN  IF hits = {} THEN -1
        ELSE (CHOOSE i \in hits : \A j \in hits : i <= j) - 1

RECURSIVE Split(_, _)
\* strings.Split, for a non-empty separator
Split(s, sep) ==
    LET i == Index(s, sep)
    IN  IF i = -1 THEN <<s>>
        ELSE <<SubSeq(s, 1, i)>>
                 \o Split(SubSeq(s, i + Len(sep) + 1, Len(s)), sep)

RECURSIVE SplitAfter(_, _)
\* strings.SplitAfter, for a non-empty separator
SplitAfter(s, sep) ==
    LET i == Index(s, sep)
    IN  IF i = -1 THEN <<s>>
        ELSE <<SubSeq(s, 1, i + Len(sep))>>
                 \o SplitAfter(SubSeq(s, i + Len(sep) + 1, Len(s)), sep)

\* the ASCII characters unicode.IsSpace accepts
WhiteSpace ==
    {" ", "\t", "\n", "\r", "\f"}

\* strings.TrimSpace
TrimSpace(s) ==
    LET keep == {i \in 1..Len(s) : s[i] \notin WhiteSpace}
    IN  IF keep = {} THEN <<>>
        ELSE SubSeq(s, CHOOSE i \in keep : \A j \in keep : i <= j,
                       CHOOSE i \in keep : \A j \in keep : i >= j)

RECURSIVE Fields(_)
\* strings.Fields: the maximal runs of non-space characters
Fields(s) ==
    LET keep == {i \in 1..Len(s) : s[i] \notin WhiteSpace}
    IN  IF keep = {} THEN <<>>
        ELSE LET a    == CHOOSE i \in keep : \A j \in keep : i <= j
                 gaps == {i \in a..Len(s) : s[i] \in WhiteSpace}
                 b    == IF gaps = {} THEN Len(s) + 1
                         ELSE CHOOSE i \in gaps : \A j \in gaps : i <= j
             IN  <<SubSeq(s, a, b - 1)>> \o Fields(SubSeq(s, b, Len(s)))

\* strings.TrimLeft(s, "0123456789")
TrimLeftDigits(s) ==
    LET keep == {i \in 1..Len(s) : ~IsDigit(s[i])}
    IN  IF keep = {} THEN <<>>
        ELSE SubSeq(s, CHOOSE i \in keep : \A j \in keep : i <= j, Len(s))

LowerLetters ==
    <<"a","b","c","d","e","f","g","h","i","j","k","l","m","n","o","p","q","r","s","t","u","v","w","x","y","z">>

UpperLetters ==
    <<"A","B","C","D","E","F","G","H","I","J","K","L","M","N","O","P","Q","R","S","T","U","V","W","X","Y","Z">>

LowerOf(c) ==
    IF \E i \in 1..26 : UpperLetters[i] = c
    THEN LowerLetters[CHOOSE i \in 1..26 : UpperLetters[i] = c]
    ELSE c

UpperOf(c) ==
    IF \E i \in 1..26 : LowerLetters[i] = c
    THEN UpperLetters[CHOOSE i \in 1..26 : LowerLetters[i] = c]
    ELSE c

\* strings.ToLower
ToLower(s) ==
    [i \in 1..Len(s) |-> LowerOf(s[i])]

\* the characters that do not end a word for strings.Title: letters, digits, "_"
IsWordChar(c) ==
    \/ IsDigit(c)
    \/ c = "_"
    \/ \E i \in 1..26 : LowerLetters[i] = c \/ UpperLetters[i] = c

\* strings.Title: the first letter of every word in upper case
Title(s) ==
    [i \in 1..Len(s) |->
        IF i = 1 \/ ~IsWordChar(s[i - 1]) THEN UpperOf(s[i]) ELSE s[i]]

-----------------------------------------------------------------------------
(* The timecode codec.                                                     *)

ErrUnknownBase == "unknown base for timecode"

ErrInvalidTimecode == "invalid timecode"

\* code[i : i+2] for i = 0, 3, 6, 9 (the loop of NewTimecode), 1-based here
Group(c, k) ==
    SubSeq(c, 3 * k + 1, 3 * k + 2)

\* FrameOf with two codes dropped at every minute, the tenth ones too
FrameOfEveryMinute(h, m, s, f, base, drop) ==
    LET frame        == 3600 * h * base + 60 * m * base + s * base + f
        totalMinutes == 60 * h + m
    IN  IF drop THEN frame - 2 * totalMinutes ELSE frame

\* the frame number NewTimecode computes from the four fields
FrameOf(h, m, s, f, base, drop) ==
    LET frame        == 3600 * h * base + 60 * m * base + s * base + f
        totalMinutes == 60 * h + m
    IN  IF drop
        THEN frame - 2 * (totalMinutes - Quot(totalMinutes, 10))
        ELSE frame

\* NewTimecode whose loop stops before the last group (i < 9)
NewTimecodeThreeGroups(c, base, drop0) ==
    LET drop == IF base = 24 /\ drop0 THEN FALSE ELSE drop0
        g(k) == Atoi(Group(c, k))
    IN  IF base # 24 /\ base # 30
        THEN [t |-> NilRec, err |-> ErrUnknownBase]
        ELSE IF Len(c) # 11
        THEN [t |-> NilRec, err |-> ErrInvalidTimecode]
        ELSE IF \E k \in 0..2 : ~g(k).ok
        THEN [t |-> NilRec, err |-> ErrInvalidTimecode]
        ELSE [t   |-> [base  |-> base,
                       drop  |-> drop,
                       frame |-> FrameOf(g(0).n, g(1).n, g(2).n, 0, base, drop)],
              err |-> Nil]

\* NewTimecode(code, base, drop): [t |-> the Timecode or NilRec, err |-> error or Nil]
NewTimecode(c, base, drop0) ==
    LET drop == IF base = 24 /\ drop0 THEN FALSE ELSE drop0
        g(k) == Atoi(Group(c, k))
    IN  IF base # 24 /\ base # 30
        THEN [t |-> NilRec, err |-> ErrUnknownBase]
        ELSE IF Len(c) # 11
        THEN [t |-> NilRec, err |-> ErrInvalidTimecode]
        ELSE IF \E k \in 0..3 : ~g(k).ok
        THEN [t |-> NilRec, err |-> ErrInvalidTimecode]
        ELSE [t   |-> [base  |-> base,
                       drop  |-> drop,
                       frame |-> FrameOf(g(0).n, g(1).n, g(2).n, g(3).n,
                                         base, drop)],
              err |-> Nil]

\* (*Timecode).Add
Add(tc, n) ==
    [tc EXCEPT !.frame = @ + n]

\* Undropped without the codes dropped inside the current ten-minute chunk
UndroppedTenMinutesOnly(tc) ==
    LET frame == tc.frame
        D     == Quot(frame, 17982)
    IN  IF tc.drop THEN frame + 18 * D ELSE frame

\* the frame number String() splits into fields: the drop-frame codes put back
Undropped(tc) ==
    LET frame == tc.frame
        D     == Quot(frame, 17982)
        M     == Rem(frame, 17982)
        d     == Quot(M - 2, 1798)
    IN  IF tc.drop THEN frame + 18 * D + 2 * d ELSE frame

\* strconv.Itoa(c), left-padded with "0" when it is one character long
Pad2(c) ==
    LET tc == Itoa(c)
    IN  IF Len(tc) = 1 THEN <<"0">> \o tc ELSE tc

\* String without the "% 24" of the hour field
StringNoWrap(tc) ==
    LET base  == tc.base
        frame == Undropped(tc)
        h     == Quot(Quot(Quot(frame, base), 60), 60)
        m     == Rem(Quot(Quot(frame, base), 60), 60)
        s     == Rem(Quot(frame, base), 60)
        f     == Rem(frame, base)
    IN  Pad2(h) \o <<":">> \o Pad2(m) \o <<":">> \o Pad2(s)
            \o (IF tc.drop THEN <<";">> ELSE <<":">>) \o Pad2(f)

\* (*Timecode).String
String(tc) ==
    LET base  == tc.base
        frame == Undropped(tc)
        h     == Rem(Quot(Quot(Quot(frame, base), 60), 60), 24)
        m     == Rem(Quot(Quot(frame, base), 60), 60)
        s     == Rem(Quot(frame, base), 60)
        f     == Rem(frame, base)
    IN  Pad2(h) \o <<":">> \o Pad2(m) \o <<":">> \o Pad2(s)
            \o (IF tc.drop THEN <<";">> ELSE <<":">>) \o Pad2(f)

-----------------------------------------------------------------------------
(* parse: the report parser and the assembly of the result.                *)

StreamOpen ==
    <<"[","S","T","R","E","A","M","]">>

StreamClose ==
    <<"[","/","S","T","R","E","A","M","]">>

StreamLinePrefix ==
    <<"S","t","r","e","a","m"," ","#","0",":">>

VideoTok ==
    <<"V","i","d","e","o",":">>

FpsTok ==
    <<"f","p","s">>

FpsCommaTok ==
    <<"f","p","s",",">>

KeyNbFrames ==
    <<"n","b","_","f","r","a","m","e","s","=">>

KeyWidth ==
    <<"w","i","d","t","h","=">>

KeyHeight ==
    <<"h","e","i","g","h","t","=">>

KeyCodecName ==
    <<"c","o","d","e","c","_","n","a","m","e","=">>

KeyProfile ==
    <<"p","r","o","f","i","l","e","=">>

KeyPixFmt ==
    <<"p","i","x","_","f","m","t","=">>

KeyColorSpace ==
    <<"c","o","l","o","r","_","s","p","a","c","e","=">>

KeyTimecode ==
    <<"T","A","G",":","t","i","m","e","c","o","d","e","=">>

Fps30 ==
    <<"3","0">>

Fps2997 ==
    <<"2","9",".","9","7">>

Fps24 ==
    <<"2","4">>

Fps2398 ==
    <<"2","3",".","9","8">>

Fps23976 ==
    <<"2","3",".","9","7","6">>

ErrNoStream == "cannot find [STREAM] lines"

ErrStreamLine == "unexpected stream line"

ErrNoVideo == "not found video stream"

ErrUnmatched == "unmatched video stream"

ErrInvalidFrames == "invalid frames"

ErrMissingTimecode == "missing TAG:timecode information"

ErrMissingFps == "missing fps information"

ErrMissingFrames == "missing nb_frames information"

ErrUnsupportedFps == "unsupported fps"

ErrMissingWidth == "missing width information"

ErrMissingHeight == "missing height information"

\* the zero value of the result struct
EmptyRes ==
    [start |-> <<>>, end |-> <<>>, duration |-> <<>>, fps |-> <<>>,
     resolution |-> <<>>, codec |-> <<>>, colorspace |-> <<>>]

\* the place of the first "fps" or "fps," among the fields (0-based), or -1
FpsIndex(flds) ==
    LET hits == {i \in 1..Len(flds) : flds[i] = FpsTok \/ flds[i] = FpsCommaTok}
    IN  IF hits = {} THEN -1
        ELSE (CHOOSE i \in hits : \A j \in hits : i <= j) - 1

RECURSIVE ScanOverview(_, _, _, _)
\* the loop over the overview's lines, from line i with fps and videoIdx as
\* they stand: st is "ok" at the end of the loop, "err" at a return inside it,
\* "panic" where flds[2] is read from fewer than three fields
ScanOverview(lines, i, fps, videoIdx) ==
    IF i > Len(lines)
    THEN [st |-> "ok", err |-> Nil, fps |-> fps, videoIdx |-> videoIdx]
    ELSE
    LET l == TrimSpace(lines[i])
    IN  IF ~(HasPrefix(l, StreamLinePrefix) /\ fps = <<>>)
        THEN ScanOverview(lines, i + 1, fps, videoIdx)
        ELSE
        LET flds == Fields(l)
        IN  IF Len(flds) < 3
            THEN [st |-> "panic", err |-> Nil, fps |-> fps, videoIdx |-> videoIdx]
            ELSE IF flds[3] # VideoTok
            THEN ScanOverview(lines, i + 1, fps, videoIdx)
            ELSE
            LET rest       == TrimPrefix(l, StreamLinePrefix)
                trimDigits == TrimLeftDigits(rest)
                n          == SubSeq(rest, 1, Len(rest) - Len(trimDigits))
                a          == Atoi(n)
                idx        == FpsIndex(flds)
            IN  IF Len(rest) = 0
                THEN [st |-> "err", err |-> ErrStreamLine,
                      fps |-> fps, videoIdx |-> videoIdx]
                ELSE IF ~a.ok
                THEN [st |-> "err", err |-> ErrStreamLine,
                      fps |-> fps, videoIdx |-> 0]
                ELSE IF idx = -1
                THEN ScanOverview(lines, i + 1, fps, a.n)
                ELSE ScanOverview(lines, i + 1, flds[idx], a.n)

\* the locals of parse the loop over the video block fills
EmptyBlock ==
    [frames |-> 0, width |-> <<>>, height |-> <<>>, timecode |-> <<>>,
     codec |-> <<>>, codec_profile |-> <<>>, pix_fmt |-> <<>>,
     colorspace |-> <<>>]

\* one "if strings.HasPrefix(l, key) && field == "" { field = value }"
TakeFirst(l, key, cur) ==
    IF HasPrefix(l, key) /\ cur = <<>> THEN TrimPrefix(l, key) ELSE cur

\* "if strings.HasPrefix(l, key) { field = value }", as written for TAG:timecode=
TakeLast(l, key, cur) ==
    IF HasPrefix(l, key) THEN TrimPrefix(l, key) ELSE cur

RECURSIVE ScanBlock(_, _, _, _)
\* the loop over the video block's lines, from line i with the locals v
ScanBlock(lines, i, fps, v) ==
    IF i > Len(lines) \/ (fps # <<>> /\ v.timecode # <<>> /\ v.frames # 0)
    THEN [st |-> "ok", err |-> Nil, v |-> v]
    ELSE
    LET l      == lines[i]
        isNb   == HasPrefix(l, KeyNbFrames) /\ v.frames = 0
        a      == Atoi(TrimPrefix(l, KeyNbFrames))
        isTc   == HasPrefix(l, KeyTimecode)
        tcode  == TrimPrefix(l, KeyTimecode)
        v1     == [frames        |-> IF isNb THEN a.n ELSE v.frames,
                   width         |-> TakeFirst(l, KeyWidth, v.width),
                   height        |-> TakeFirst(l, KeyHeight, v.height),
                   codec         |-> TakeFirst(l, KeyCodecName, v.codec),
                   codec_profile |-> TakeFirst(l, KeyProfile, v.codec_profile),
                   pix_fmt       |-> TakeFirst(l, KeyPixFmt, v.pix_fmt),
                   colorspace    |-> TakeFirst(l, KeyColorSpace, v.colorspace),
                   timecode      |-> TakeLast(l, KeyTimecode, v.timecode)]
    IN  IF isNb /\ ~a.ok
        THEN [st |-> "err", err |-> ErrInvalidFrames, v |-> v]
        ELSE IF isTc /\ Len(tcode) # 11
        THEN [st |-> "err", err |-> ErrInvalidTimecode, v |-> v1]
        ELSE ScanBlock(lines, i + 1, fps, v1)

SupportedFps ==
    {Fps30, Fps2997, Fps24, Fps2398, Fps23976}

\* base and drop as parse derives them from fps
BaseOfFps(fps) ==
    IF fps = Fps30 \/ fps = Fps2997 THEN 30 ELSE 24

DropOfFps(fps) ==
    fps = Fps2997

\* the result so far and the error returned, before the first block
NoError ==
    [res |-> EmptyRes, err |-> Nil]

\* "if cfg.start { ... }".  Every step takes r = [res, err], the result so far
\* and the error parse has returned with, and leaves r alone once err is set.
StartStep(c, fps, v, r) ==
    IF r.err # Nil \/ ~c.start THEN r
    ELSE IF v.timecode = <<>> THEN [r EXCEPT !.err = ErrMissingTimecode]
    ELSE [r EXCEPT !.res.start = v.timecode]

\* EndStep that adds the whole frame count (one past the last frame)
EndStepOnePast(c, fps, v, r) ==
    IF r.err # Nil \/ ~c.end THEN r
    ELSE IF v.timecode = <<>> THEN [r EXCEPT !.err = ErrMissingTimecode]
    ELSE IF fps = <<>> THEN [r EXCEPT !.err = ErrMissingFps]
    ELSE IF v.frames = 0 THEN [r EXCEPT !.err = ErrMissingFrames]
    ELSE IF fps \notin SupportedFps THEN [r EXCEPT !.err = ErrUnsupportedFps]
    ELSE IF NewTimecode(v.timecode, BaseOfFps(fps), DropOfFps(fps)).err # Nil
    THEN [r EXCEPT !.err =
             NewTimecode(v.timecode, BaseOfFps(fps), DropOfFps(fps)).err]
    ELSE [r EXCEPT !.res.end =
             String(Add(NewTimecode(v.timecode, BaseOfFps(fps),
                                    DropOfFps(fps)).t, v.frames))]

\* "if cfg.end { ... }"
EndStep(c, fps, v, r) ==
    IF r.err # Nil \/ ~c.end THEN r
    ELSE IF v.timecode = <<>> THEN [r EXCEPT !.err = ErrMissingTimecode]
    ELSE IF fps = <<>> THEN [r EXCEPT !.err = ErrMissingFps]
    ELSE IF v.frames = 0 THEN [r EXCEPT !.err = ErrMissingFrames]
    ELSE IF fps \notin SupportedFps THEN [r EXCEPT !.err = ErrUnsupportedFps]
    ELSE IF NewTimecode(v.timecode, BaseOfFps(fps), DropOfFps(fps)).err # Nil
    THEN [r EXCEPT !.err =
             NewTimecode(v.timecode, BaseOfFps(fps), DropOfFps(fps)).err]
    ELSE [r EXCEPT !.res.end =
             String(Add(NewTimecode(v.timecode, BaseOfFps(fps),
                                    DropOfFps(fps)).t, v.frames - 1))]

\* "if cfg.duration { ... }"
DurationStep(c, fps, v, r) ==
    IF r.err # Nil \/ ~c.duration THEN r
    ELSE IF v.frames = 0 THEN [r EXCEPT !.err = ErrMissingFrames]
    ELSE [r EXCEPT !.res.duration = Itoa(v.frames)]

\* "if cfg.fps { ... }"
FpsStep(c, fps, v, r) ==
    IF r.err # Nil \/ ~c.fps THEN r
    ELSE [r EXCEPT !.res.fps = fps]

\* "if cfg.resolution { ... }"
ResolutionStep(c, fps, v, r) ==
    IF r.err # Nil \/ ~c.resolution THEN r
    ELSE IF v.width = <<>> THEN [r EXCEPT !.err = ErrMissingWidth]
    ELSE IF v.height = <<>> THEN [r EXCEPT !.err = ErrMissingHeight]
    ELSE [r EXCEPT !.res.resolution = v.width \o <<"*">> \o v.height]

\* "if cfg.codec { ... }"
CodecStep(c, fps, v, r) ==
    IF r.err # Nil \/ ~c.codec THEN r
    ELSE [r EXCEPT !.res.codec =
             Title(ToLower(v.codec)) \o <<" ">> \o v.codec_profile
                 \o <<" ", "/", " ">> \o v.pix_fmt]

\* "if cfg.colorspace { ... }"
ColorspaceStep(c, fps, v, r) ==
    IF r.err # Nil \/ ~c.colorspace THEN r
    ELSE [r EXCEPT !.res.colorspace = v.colorspace]

\* the seven blocks in the order of the code; the first error returns, with
\* res as it stands
Assemble(c, fps, v) ==
    ColorspaceStep(c, fps, v,
      CodecStep(c, fps, v,
        ResolutionStep(c, fps, v,
          FpsStep(c, fps, v,
            DurationStep(c, fps, v,
              EndStep(c, fps, v,
                StartStep(c, fps, v, NoError)))))))

\* a return before any field of res is set
Failed(e) ==
    [res |-> EmptyRes, err |-> e, fault |-> FALSE]

\* a run-time panic: parse does not return
Panicked ==
    [res |-> EmptyRes, err |-> Nil, fault |-> TRUE]

\* the return of parse after the assembly
Finish(r) ==
    [res |-> r.res, err |-> r.err, fault |-> FALSE]

\* parse from the loop over the video block on; blk is what the loop left
ParseBlock(c, fps, blk) ==
    IF blk.st = "err" THEN Failed(blk.err)
    ELSE Finish(Assemble(c, fps, blk.v))

\* parse from "if videoIdx == -1" on; ov is what the overview loop left
ParseStreams(c, streamData, ov) ==
    IF ov.st = "panic" THEN Panicked
    ELSE IF ov.st = "err" THEN Failed(ov.err)
    ELSE IF ov.videoIdx = -1 THEN Failed(ErrNoVideo)
    ELSE IF ov.videoIdx >= Len(SplitAfter(streamData, StreamClose))
    THEN Failed(ErrUnmatched)
    ELSE ParseBlock(c, ov.fps,
             ScanBlock(Split(SplitAfter(streamData, StreamClose)[ov.videoIdx + 1],
                             <<"\n">>),
                       1, ov.fps, EmptyBlock))

\* parse from "if idx == -1" on
ParseFrom(d, c, idx) ==
    IF idx = -1 THEN Failed(ErrNoStream)
    ELSE ParseStreams(c, SubSeq(d, idx + 1, Len(d)),
             ScanOverview(Split(SubSeq(d, 1, idx), <<"\n">>), 1, <<>>, -1))

\* parse(data, cfg): [res, err] as returned, or fault = TRUE for a panic
parse(d, c) ==
    ParseFrom(d, c, Index(d, StreamOpen))

-----------------------------------------------------------------------------
(* The codec's callers: the strings, bases and frame counts they pass.     *)

MaxAdds == 2

TwoDigits(n) ==
    <<DigitChars[(n \div 10) + 1], DigitChars[(n % 10) + 1]>>

MkCode(h, m, s, f, sep) ==
    TwoDigits(h) \o <<":">> \o TwoDigits(m) \o <<":">> \o TwoDigits(s)
        \o <<sep>> \o TwoDigits(f)

HourVals == {0, 1, 23}

MinuteVals == {0, 1, 9, 10, 11, 59}

SecondVals == {0, 1, 59}

FrameVals == {0, 1, 2, 23, 24, 29}

\* well-formed codes, with the last separator as ffprobe writes it (":" or ";")
GridCodes ==
    {MkCode(h, m, s, f, sep) :
        h \in HourVals, m \in MinuteVals, s \in SecondVals, f \in FrameVals,
        sep \in {":", ";"}}

\* fields out of range, signs, other separators, non-digits, other lengths
OddCodes ==
    { <<"9","9",":","9","9",":","9","9",":","9","9">>,
      <<"2","4",":","0","0",":","0","0",":","0","0">>,
      <<"0","0",":","6","0",":","0","0",":","0","0">>,
      <<"0","0",":","0","0",":","6","0",":","0","0">>,
      <<"0","0",":","0","0",":","0","0",":","3","0">>,
      <<"+","1",":","0","0",":","0","0",":","0","0">>,
      <<"-","1",":","0","0",":","0","0",":","0","0">>,
      <<"0","0",":","0","0",":","0","0",":","-","1">>,
      <<"0","0",";","0","0",";","0","0",";","0","2">>,
      <<"0","0","x","0","0","x","0","0","x","0","2">>,
      <<"0","a",":","0","0",":","0","0",":","0","0">>,
      <<"0","0",":","0","0",":","0","0",":","0","x">>,
      <<"0","0",":","0","0",":"," ","1",":","0","0">>,
      <<"0","0",":","0","0",":","0","0",":","0">>,
      <<"0","0",":","0","0",":","0","0",":","0","0","0">>,
      <<>> }

Codes == GridCodes \cup OddCodes

Bases == {24, 25, 30}

\* 24 hours' worth of frames of a Timecode
DayFrames(tc) ==
    IF tc.drop THEN 144 * 17982 ELSE 24 * 3600 * tc.base

AddAmounts(tc) ==
    {-2, 1, 2, 1798, DayFrames(tc)}

-----------------------------------------------------------------------------
(* The codec as a state machine: one action per operation.                 *)

InitCodec ==
    /\ code = <<>>
    /\ reqBase = 0
    /\ reqDrop = FALSE
    /\ t = NilRec
    /\ err = Nil
    /\ out = <<>>
    /\ nadds = 0
    /\ ovLines = <<>>
    /\ blocks = <<>>
    /\ data = <<>>
    /\ cfg = NilRec
    /\ ret = NilRec

NewTimecodeCall ==
    /\ t = NilRec
    /\ err = Nil
    /\ \E c \in Codes, base \in Bases, drop \in BOOLEAN :
          LET r == NewTimecode(c, base, drop)
          IN  /\ code' = c
              /\ reqBase' = base
              /\ reqDrop' = drop
              /\ t' = r.t
              /\ err' = r.err
    /\ UNCHANGED <<out, nadds>>
    /\ UNCHANGED parseVars

AddCall ==
    /\ t # NilRec
    /\ nadds < MaxAdds
    /\ \E n \in AddAmounts(t) : t' = Add(t, n)
    /\ nadds' = nadds + 1
    /\ out' = <<>>
    /\ UNCHANGED <<code, reqBase, reqDrop, err>>
    /\ UNCHANGED parseVars

StringCall ==
    /\ t # NilRec
    /\ out' = String(t)
    /\ UNCHANGED <<code, reqBase, reqDrop, t, err, nadds>>
    /\ UNCHANGED parseVars

NextCodec ==
    \/ NewTimecodeCall
    \/ AddCall
    \/ StringCall

SpecCodec == InitCodec /\ [][NextCodec]_vars

-----------------------------------------------------------------------------
(* The reports ffprobe hands to parse, and the configs main builds.        *)

MaxOverviewLines == 2

MaxBlockLines == 3

OvIntro ==
    <<"I","n","p","u","t"," ","#","0",","," ","m","o","v",":">>

\* "  Stream #0:<n>(eng): Video: prores, <fps> fps, 24 tbr"
VideoLine(n, fps) ==
    <<" ", " ">> \o StreamLinePrefix \o n
        \o <<"(","e","n","g",")",":"," ">> \o VideoTok
        \o <<" ","p","r","o","r","e","s",","," ">> \o fps \o <<" ">>
        \o FpsCommaTok \o <<" ","2","4"," ","t","b","r">>

\* "  Stream #0:<n>: Video: mjpeg, 90k tbr": a video stream with no fps token
VideoLineNoFps(n) ==
    <<" ", " ">> \o StreamLinePrefix \o n \o <<":"," ">> \o VideoTok
        \o <<" ","m","j","p","e","g",","," ","9","0","k"," ","t","b","r">>

\* "  Stream #0:<n>: Audio: aac"
AudioLine(n) ==
    <<" ", " ">> \o StreamLinePrefix \o n
        \o <<":"," ","A","u","d","i","o",":"," ","a","a","c">>

\* "  Stream #0:<n>": a stream line of two fields
ShortLine(n) ==
    <<" ", " ">> \o StreamLinePrefix \o n

\* "Stream #0: Video: prores, 24 fps": a stream line with no index
NoIndexLine ==
    StreamLinePrefix \o <<" ">> \o VideoTok
        \o <<" ","p","r","o","r","e","s",","," ">> \o Fps24 \o <<" ">> \o FpsTok

Fps5994 ==
    <<"5","9",".","9","4">>

OverviewLines ==
    { OvIntro,
      VideoLine(<<"0">>, Fps2398),
      VideoLine(<<"0">>, Fps2997),
      VideoLine(<<"0">>, Fps5994),
      VideoLine(<<"1">>, Fps24),
      VideoLine(<<"2">>, Fps30),
      VideoLineNoFps(<<"0">>),
      AudioLine(<<"0">>),
      ShortLine(<<"0">>),
      NoIndexLine }

TimecodeA ==
    <<"0","0",":","0","0",":","0","0",":","0","0">>

TimecodeB ==
    <<"2","0",":","5","1",":","0","1",":","2","0">>

\* a code the drop-frame system skips
TimecodeSkipped ==
    <<"0","0",":","0","1",":","0","0",":","0","0">>

BlockLines ==
    { KeyNbFrames \o <<"1","0","2">>,
      KeyNbFrames \o <<"1">>,
      KeyNbFrames \o <<"0">>,
      KeyNbFrames \o <<"-","5">>,
      KeyNbFrames \o <<"N","/","A">>,
      KeyTimecode \o TimecodeA,
      KeyTimecode \o TimecodeB,
      KeyTimecode \o TimecodeSkipped,
      KeyTimecode \o <<"1",":","2",":","3">>,
      KeyWidth \o <<"1","9","2","0">>,
      KeyHeight \o <<"1","0","8","0">> }

\* the video block of the first report TestParse reads, in ffprobe's order
BlockFull ==
    << <<"i","n","d","e","x","=","0">>,
       KeyCodecName \o <<"P","R","O","R","E","S">>,
       KeyProfile \o <<"H","Q">>,
       KeyWidth \o <<"1","9","2","0">>,
       KeyHeight \o <<"1","0","8","0">>,
       KeyPixFmt \o <<"y","u","v","4","2","2","p","1","0","l","e">>,
       KeyColorSpace \o <<"b","t","7","0","9">>,
       KeyNbFrames \o <<"1","0","2">>,
       KeyTimecode \o TimecodeA >>

\* the video block of the second report TestParse reads
BlockTwo ==
    << <<"i","n","d","e","x","=","1">>,
       KeyWidth \o <<"1","9","2","0">>,
       KeyHeight \o <<"1","0","8","0">>,
       KeyNbFrames \o <<"8","4">>,
       KeyTimecode \o TimecodeB >>

\* the sequences of at most n elements of S
SeqUpTo(S, n) ==
    UNION {[1..k -> S] : k \in 0..n}

\* any overview over one or two ffprobe-like blocks, or over none at all
ReportsByOverview ==
    [ov     : SeqUpTo(OverviewLines, MaxOverviewLines),
     blocks : {<<>>, <<BlockFull>>, <<BlockFull, BlockTwo>>}]

\* one video stream, index 0, over any block
ReportsByBlock ==
    [ov     : { <<VideoLine(<<"0">>, Fps2398)>>,
                <<VideoLine(<<"0">>, Fps2997)>>,
                <<VideoLineNoFps(<<"0">>)>> },
     blocks : {<<b>> : b \in SeqUpTo(BlockLines, MaxBlockLines)}]

Reports == ReportsByOverview \cup ReportsByBlock

RECURSIVE JoinLines(_)
\* every line followed by a newline
JoinLines(lines) ==
    IF lines = <<>> THEN <<>>
    ELSE Head(lines) \o <<"\n">> \o JoinLines(Tail(lines))

RECURSIVE RenderBlocks(_)
RenderBlocks(bs) ==
    IF bs = <<>> THEN <<>>
    ELSE StreamOpen \o <<"\n">> \o JoinLines(Head(bs)) \o StreamClose
             \o <<"\n">> \o RenderBlocks(Tail(bs))

\* the text of a report: the overview, then the blocks
Render(ov, bs) ==
    JoinLines(ov) \o RenderBlocks(bs)

\* a config with the given flags set
Cfg(flags) ==
    [start      |-> "start" \in flags,
     end        |-> "end" \in flags,
     duration   |-> "duration" \in flags,
     fps        |-> "fps" \in flags,
     resolution |-> "resolution" \in flags,
     codec      |-> "codec" \in flags,
     colorspace |-> "colorspace" \in flags]

\* the config of TestParse, all seven flags, and smaller ones
Cfgs ==
    { Cfg({"start", "end", "duration", "resolution"}),
      Cfg({"start", "end", "duration", "fps", "resolution", "codec",
           "colorspace"}),
      Cfg({"end"}),
      Cfg({"duration"}),
      Cfg({"start", "resolution"}) }

-----------------------------------------------------------------------------
(* parse as a state machine: main reads a report and calls parse once.     *)

InitParse ==
    /\ code = <<>>
    /\ reqBase = 0
    /\ reqDrop = FALSE
    /\ t = NilRec
    /\ err = Nil
    /\ out = <<>>
    /\ nadds = 0
    /\ \E r \in Reports :
          /\ ovLines = r.ov
          /\ blocks = r.blocks
          /\ data = Render(r.ov, r.blocks)
    /\ cfg \in Cfgs
    /\ ret = NilRec

ParseCall ==
    /\ ret = NilRec
    /\ ret' = parse(data, cfg)
    /\ UNCHANGED <<ovLines, blocks, data, cfg>>
    /\ UNCHANGED codecVars

NextParse ==
    ParseCall

SpecParse == InitParse /\ [][NextParse]_vars

-----------------------------------------------------------------------------
(* Properties of the codec.                                                *)

\* the two-digit number at positions i, i+1 of a string
Num2(str, i) ==
    10 * DigitVal(str[i]) + DigitVal(str[i + 1])

\* the literal pattern DD:DD:DD:DD
IsPattern(c) ==
    /\ Len(c) = 11
    /\ \A i \in {1, 2, 4, 5, 7, 8, 10, 11} : IsDigit(c[i])
    /\ \A i \in {3, 6, 9} : c[i] = ":"

\* hours below 24, minutes and seconds below 60, frames below the base
InRange(c, base) ==
    /\ Num2(c, 1) < 24
    /\ Num2(c, 4) < 60
    /\ Num2(c, 7) < 60
    /\ Num2(c, 10) < base

\* a code the drop-frame system skips: frames 00, 01 of second 00 of a minute
\* that is no multiple of 10
Skipped(c) ==
    /\ Num2(c, 7) = 0
    /\ Num2(c, 10) < 2
    /\ Num2(c, 4) % 10 # 0

\* String() has just been called on the Timecode NewTimecode made, no Add between
Formatted0 ==
    /\ t # NilRec
    /\ nadds = 0
    /\ out # <<>>

\* C1, as stated: for every valid timecode c of the pattern DD:DD:DD:DD and
\* every supported (base, drop) pair, String() of NewTimecode(c, base, drop)
\* equals c.
C1_RoundTripAsStated ==
    (Formatted0 /\ IsPattern(code) /\ InRange(code, reqBase)
        /\ (reqDrop => (reqBase = 30 /\ ~Skipped(code))))
    => out = code

\* C1, amended: for every c of the pattern with its fields in range, String()
\* of NewTimecode(c, base, drop) equals c for the non-drop pairs, and for
\* (30, true) equals c with its last separator written ";", provided c is not
\* a code the drop-frame system skips.
C1_RoundTrip ==
    (Formatted0 /\ IsPattern(code) /\ InRange(code, reqBase)
        /\ (reqDrop => (reqBase = 30 /\ ~Skipped(code))))
    => out = (IF reqDrop THEN [code EXCEPT ![9] = ";"] ELSE code)

C1_Witness ==
    /\ Formatted0
    /\ IsPattern(code) /\ InRange(code, reqBase)
    /\ reqDrop /\ reqBase = 30 /\ ~Skipped(code)
    /\ Num2(code, 1) = 23 /\ Num2(code, 4) = 59
    /\ out = [code EXCEPT ![9] = ";"]

\* C2: a base-30 drop-frame Timecode holding a frame count n >= 0 never
\* formats to seconds 00 with frames 00 or 01 in a minute that is not a
\* multiple of 10.
C2_DropFrameSkips ==
    (t # NilRec /\ t.drop /\ t.frame >= 0 /\ out # <<>>)
    => ~(Num2(out, 7) = 0 /\ Num2(out, 10) < 2 /\ Num2(out, 4) % 10 # 0)

\* one frame after 00:00:59;29 the minute rolls over to 00:01:00;02
C2_Witness ==
    /\ t # NilRec /\ t.drop /\ nadds > 0
    /\ t.frame = 1800
    /\ out = <<"0","0",":","0","1",":","0","0",";","0","2">>

\* what NewTimecode accepts: 11 characters whose four groups are two digits,
\* or a sign and a digit; the characters between the groups are not read
Accepted(c) ==
    /\ Len(c) = 11
    /\ \A i \in {1, 4, 7, 10} :
          /\ IsDigit(c[i]) \/ c[i] \in {"+", "-"}
          /\ IsDigit(c[i + 1])

NewTimecodeReturned ==
    /\ t # NilRec \/ err # Nil
    /\ reqBase \in {24, 30}

ClaimDay(tc) ==
    IF tc.drop THEN 2589408 ELSE 24 * 3600 * tc.base

\* C7: for n >= 0, a Timecode holding n + F formats as one holding n does
\* (String() depends only on the frame count modulo F), with F = 24*3600*base
\* for non-drop and 2589408 for drop-frame; the hour field is in 00..23.
C7_DayWrap ==
    (t # NilRec /\ t.frame >= 0 /\ out # <<>>)
    => /\ out = String([t EXCEPT !.frame = t.frame % ClaimDay(t)])
       /\ IsDigit(out[1]) /\ IsDigit(out[2]) /\ out[3] = ":"
       /\ Num2(out, 1) \in 0..23

C7_Witness ==
    /\ t # NilRec /\ t.drop /\ out # <<>>
    /\ t.frame >= 2589408
    /\ t.frame % 2589408 > 0
    /\ out = String([t EXCEPT !.frame = t.frame - 2589408])

-----------------------------------------------------------------------------
(* Properties of parse.                                                    *)

IndexDigits == {<<"0">>, <<"1">>, <<"2">>}

FpsStrings == SupportedFps \cup {Fps5994}

\* an overview line that names a video stream
IsVideoLine(l) ==
    \E n \in IndexDigits :
        \/ l = VideoLineNoFps(n)
        \/ \E f \in FpsStrings : l = VideoLine(n, f)

\* the stream index such a line carries
IndexOfLine(l) ==
    CHOOSE k \in 0..2 :
        \/ l = VideoLineNoFps(<<DigitChars[k + 1]>>)
        \/ \E f \in FpsStrings : l = VideoLine(<<DigitChars[k + 1]>>, f)

\* the fps such a line carries, empty when it has no fps token
FpsOfLine(l) ==
    IF \E n \in IndexDigits : l = VideoLineNoFps(n) THEN <<>>
    ELSE CHOOSE f \in FpsStrings : \E n \in IndexDigits : l = VideoLine(n, f)

VideoLinePlaces ==
    {i \in 1..Len(ovLines) : IsVideoLine(ovLines[i])}

FirstVideoLine ==
    ovLines[CHOOSE i \in VideoLinePlaces : \A j \in VideoLinePlaces : i <= j]

RECURSIVE ValuesOf(_, _)
\* the values of the lines of block b that start with key, in order
ValuesOf(b, key) ==
    IF b = <<>> THEN <<>>
    ELSE (IF HasPrefix(Head(b), key)
          THEN <<SubSeq(Head(b), Len(key) + 1, Len(Head(b)))>> ELSE <<>>)
             \o ValuesOf(Tail(b), key)

\* parse has returned a result and no error
Returned ==
    /\ ret # NilRec
    /\ ~ret.fault
    /\ ret.err = Nil

\* the overview holds nothing but well-formed lines, one of them a video line
PlainOverview ==
    /\ \A i \in 1..Len(ovLines) :
          \/ IsVideoLine(ovLines[i])
          \/ ovLines[i] = OvIntro
          \/ ovLines[i] = AudioLine(<<"0">>)
    /\ VideoLinePlaces # {}

\* the report names one video stream, whose block exists and holds one
\* TAG:timecode= line and one nb_frames= line
OneStreamOneTag ==
    /\ PlainOverview
    /\ Cardinality(VideoLinePlaces) = 1
    /\ IndexOfLine(FirstVideoLine) < Len(blocks)
    /\ Len(ValuesOf(blocks[IndexOfLine(FirstVideoLine) + 1], KeyTimecode)) = 1
    /\ Len(ValuesOf(blocks[IndexOfLine(FirstVideoLine) + 1], KeyNbFrames)) = 1

TheBlock == blocks[IndexOfLine(FirstVideoLine) + 1]

TheTimecode == ValuesOf(TheBlock, KeyTimecode)[1]

TheFrames == Atoi(ValuesOf(TheBlock, KeyNbFrames)[1]).n

TheFps == FpsOfLine(FirstVideoLine)

\* base and drop as the claim gives them
ClaimBase(fps) ==
    IF fps \in {Fps30, Fps2997} THEN 30 ELSE 24

ClaimDrop(fps) ==
    fps = Fps2997

\* the case of C3: end requested, a tag T, a supported fps, nb_frames N > 0
EndCase ==
    /\ Returned
    /\ cfg.end
    /\ OneStreamOneTag
    /\ IsPattern(TheTimecode)
    /\ TheFps \in SupportedFps
    /\ TheFrames > 0

EndAsClaimed ==
    String(Add(NewTimecode(TheTimecode, ClaimBase(TheFps), ClaimDrop(TheFps)).t,
               TheFrames - 1))

\* the ends TestParse expects of its two reports, both read in base 24
TestParseEnds ==
    /\ (ClaimBase(TheFps) = 24 /\ TheTimecode = TimecodeA /\ TheFrames = 102)
          => ret.res.end = <<"0","0",":","0","0",":","0","4",":","0","5">>
    /\ (ClaimBase(TheFps) = 24 /\ TheTimecode = TimecodeB /\ TheFrames = 84)
          => ret.res.end = <<"2","0",":","5","1",":","0","5",":","0","7">>

C4_NoPartialResult ==
    (ret # NilRec /\ ~ret.fault /\ ret.err # Nil) => ret.res = EmptyRes

\* the case of C6: only duration is requested, of a report with one video
\* stream whose block holds at most one nb_frames= line, a decimal number,
\* and no TAG:timecode= line of a wrong length
DurationCase ==
    /\ ret # NilRec
    /\ ~ret.fault
    /\ cfg = Cfg({"duration"})
    /\ PlainOverview
    /\ Cardinality(VideoLinePlaces) = 1
    /\ IndexOfLine(FirstVideoLine) < Len(blocks)
    /\ Len(ValuesOf(TheBlock, KeyNbFrames)) <= 1
    /\ \A i \in 1..Len(ValuesOf(TheBlock, KeyNbFrames)) :
          Atoi(ValuesOf(TheBlock, KeyNbFrames)[i]).ok
    /\ \A i \in 1..Len(ValuesOf(TheBlock, KeyTimecode)) :
          Len(ValuesOf(TheBlock, KeyTimecode)[i]) = 11

\* C6, as stated: duration is the decimal string of nb_frames when it is
\* greater than 0; when the nb_frames line is absent, or its value is zero or
\* negative, parse fails with the missing-frame-count error.
C6_DurationPositive ==
    DurationCase =>
        IF ValuesOf(TheBlock, KeyNbFrames) # <<>> /\ TheFrames > 0
        THEN ret.err = Nil /\ ret.res.duration = ValuesOf(TheBlock, KeyNbFrames)[1]
        ELSE ret.err = ErrMissingFrames

\* C8, as stated: the block parse reads is the one the first video line of
\* the overview names, whether or not that line carries an fps token.
C8_FirstVideoLine ==
    (Returned /\ cfg.start /\ PlainOverview
        /\ IndexOfLine(FirstVideoLine) < Len(blocks))
    => ret.res.start \in
          {ValuesOf(TheBlock, KeyTimecode)[i] :
              i \in 1..Len(ValuesOf(TheBlock, KeyTimecode))}

\* C9, as stated: the value parse uses for a key is that of the first line
\* with that key in the video block: start is the first TAG:timecode= value,
\* duration the first nb_frames= value, resolution the first width and height.
C9_FirstSeenWins ==
    (Returned /\ PlainOverview /\ Cardinality(VideoLinePlaces) = 1
        /\ IndexOfLine(FirstVideoLine) < Len(blocks))
    => /\ cfg.start => ret.res.start = ValuesOf(TheBlock, KeyTimecode)[1]
       /\ cfg.duration =>
             ret.res.duration = ValuesOf(TheBlock, KeyNbFrames)[1]
       /\ cfg.resolution =>
             ret.res.resolution = ValuesOf(TheBlock, KeyWidth)[1] \o <<"*">>
                                      \o ValuesOf(TheBlock, KeyHeight)[1]

\* C10, as stated: parse returns a result or an error for every report and
\* config, never ending in a run-time fault.
C10_Total ==
    ret # NilRec => ~ret.fault

=============================================================================
